---- MODULE Spec2Model ----
\* A model of gpxParser.js: the two promise-returning entry points
\* getTrackPointsData and GetMetadata, the callbacks they register with
\* fs.readFile and xml2js' parseString, and the JavaScript values the
\* projection code navigates.
EXTENDS Integers, Sequences, FiniteSets, TLC

\* ------------------------------------------------------------------ bounds
\* Largest number of trkpt elements in the first segment of the first track.
MaxPts == 2

\* ------------------------------------------------------- JavaScript values
\* Every JavaScript value is a tagged record.  Strings are sequences of
\* one-character strings, numbers are fixed point (thousandths).
Undef == [t |-> "undef"]
Null == [t |-> "null"]
NaN == [t |-> "nan"]
\* The result of evaluating an expression that raises a TypeError.
Throw == [t |-> "throw"]
Str(s) == [t |-> "str", s |-> s]
Num(n) == [t |-> "num", n |-> n]
Arr(a) == [t |-> "arr", a |-> a]
Obj(f) == [t |-> "obj", f |-> f]
Err(e) == [t |-> "err", e |-> e]

\* The function with the empty domain (an object literal without keys).
NoKeys == [k \in {} |-> Undef]
\* One optional key of an object literal.
Key(present, k, v) == IF present THEN k :> v ELSE NoKeys

\* v.k : reading a property of undefined or null raises a TypeError; a
\* string (primitive) has none of the keys the code reads.
Get(v, k) ==
    IF v.t \in {"undef", "null", "throw"} THEN Throw
    ELSE IF v.t = "obj" /\ k \in DOMAIN v.f THEN v.f[k]
    ELSE Undef

\* v[0]
Idx0(v) ==
    IF v.t \in {"undef", "null", "throw"} THEN Throw
    ELSE IF v.t = "arr" THEN (IF Len(v.a) >= 1 THEN v.a[1] ELSE Undef)
    ELSE IF v.t = "str" THEN (IF Len(v.s) >= 1 THEN Str(<<v.s[1]>>) ELSE Undef)
    ELSE Undef

\* ToBoolean
Truthy(v) ==
    CASE v.t \in {"undef", "null", "nan"} -> FALSE
      [] v.t = "str" -> v.s # <<>>
      [] v.t = "num" -> v.n # 0
      [] OTHER -> TRUE

\* ------------------------------------------------------- numeric parsing
Digit == {"0", "1", "2", "3", "4", "5", "6", "7", "8", "9"}
DigitVal(c) ==
    CASE c = "0" -> 0 [] c = "1" -> 1 [] c = "2" -> 2 [] c = "3" -> 3
      [] c = "4" -> 4 [] c = "5" -> 5 [] c = "6" -> 6 [] c = "7" -> 7
      [] c = "8" -> 8 [] c = "9" -> 9

\* Number of leading white-space characters of s.
LeadingWs(s) ==
    CHOOSE k \in 0..Len(s) :
        /\ \A j \in 1..k : s[j] = " "
        /\ (k < Len(s) => s[k + 1] # " ")

\* Length of the maximal run of digits of s that starts at position i.
DigitRun(s, i) ==
    CHOOSE k \in 0..(Len(s) + 1 - i) :
        /\ \A j \in i..(i + k - 1) : s[j] \in Digit
        /\ (i + k <= Len(s) => s[i + k] \notin Digit)

\* Value of the k digits of s that start at position i.
RECURSIVE DigitsValue(_, _, _)
DigitsValue(s, i, k) ==
    IF k = 0 THEN 0
    ELSE 10 * DigitsValue(s, i, k - 1) + DigitVal(s[i + k - 1])

RECURSIVE Pow10(_)
Pow10(k) == IF k = 0 THEN 1 ELSE 10 * Pow10(k - 1)

\* Digits kept after the decimal point by the fixed-point representation.
FracDigits == 3

\* ToString of the argument of parseFloat / parseInt: a string is itself,
\* anything else renders as text with no leading digit.
ToText(v) == IF v.t = "str" THEN v.s ELSE <<"u">>

\* parseFloat: skip white space, an optional sign, the longest prefix that
\* is a decimal literal; NaN when that prefix has no digit.
ParseFloatText(s) ==
    LET w == LeadingWs(s)
        signed == w < Len(s) /\ s[w + 1] \in {"-", "+"}
        sign == IF signed /\ s[w + 1] = "-" THEN -1 ELSE 1
        i == IF signed THEN w + 2 ELSE w + 1
        ni == DigitRun(s, i)
        dot == i + ni <= Len(s) /\ s[i + ni] = "."
        nf == IF dot THEN DigitRun(s, i + ni + 1) ELSE 0
        kept == IF nf > FracDigits THEN FracDigits ELSE nf
    IN  IF ni = 0 /\ nf = 0 THEN NaN
        ELSE Num(sign * (DigitsValue(s, i, ni) * Pow10(FracDigits)
                         + DigitsValue(s, i + ni + 1, kept) * Pow10(FracDigits - kept)))
parseFloat(v) == ParseFloatText(ToText(v))

\* parseInt without radix: skip white space, an optional sign, the longest
\* run of decimal digits; NaN when there is none.
ParseIntText(s) ==
    LET w == LeadingWs(s)
        signed == w < Len(s) /\ s[w + 1] \in {"-", "+"}
        sign == IF signed /\ s[w + 1] = "-" THEN -1 ELSE 1
        i == IF signed THEN w + 2 ELSE w + 1
        ni == DigitRun(s, i)
    IN  IF ni = 0 THEN NaN
        ELSE Num(sign * DigitsValue(s, i, ni) * Pow10(FracDigits))
parseInt(v) == ParseIntText(ToText(v))

\* new Date(text).toLocaleString(): a rendering in the local time zone, or
\* the text "Invalid Date" when the text is no date.  The texts that are
\* dates are taken to be the non-empty runs of digits (a year).
InvalidDate == <<"I", "n", "v">>
toLocaleString(v) ==
    LET s == ToText(v)
    IN  IF s # <<>> /\ \A j \in 1..Len(s) : s[j] \in Digit
        THEN Str(<<"L">> \o s)
        ELSE Str(InvalidDate)

\* ------------------------------------------------------------ GPX documents
\* An XML document is a tree of elements; a child list holds the children
\* of one name in document order (the empty list: no such child).
NoAttrs == NoKeys
LatLon(la, lo) == ("lat" :> la) @@ ("lon" :> lo)

\* <gpxtpx:TrackPointExtension>: optional gpxtpx:hr children, and possibly
\* some other child (cadence).
Wrapper(other, hr) == [other |-> other, hr |-> hr]
\* <extensions>: optional wrapper children, and possibly some other child.
Extensions(other, tpx) == [other |-> other, tpx |-> tpx]

BasePt == [attrs |-> LatLon(<<"4", "5">>, <<"7", ".", "5">>),
           ele |-> <<>>, time |-> <<>>, ext |-> <<>>]
OtherPt == [attrs |-> LatLon(<<"-", "1", ".", "2", "5">>, <<"9">>),
            ele |-> << <<"3">> >>, time |-> <<>>, ext |-> <<>>]

AttrChoices ==
    { NoAttrs,
      "lat" :> <<"4", "5">>,
      "lon" :> <<"7", ".", "5">>,
      LatLon(<<"4", "5">>, <<"7", ".", "5">>),
      LatLon(<<"a", "1">>, <<"7", ".", "5">>),
      LatLon(<<" ", "8", ".", "2", "5", "a">>, <<"-", "3">>) }
EleChoices ==
    { << <<>> >>, << <<" ">> >>, << <<"1", "2", ".", "5">> >>, << <<"a", "b">> >>,
      << <<"0">> >> }
TimeChoices == { << <<"2", "0", "2", "4">> >>, << <<"a", "b">> >>, << <<>> >> }
ExtChoices ==
    { << Extensions(FALSE, <<>>) >>,
      << Extensions(TRUE, <<>>) >>,
      << Extensions(FALSE, << Wrapper(FALSE, <<>>) >>) >>,
      << Extensions(FALSE, << Wrapper(TRUE, <<>>) >>) >>,
      << Extensions(FALSE, << Wrapper(FALSE, << <<>> >>) >>) >>,
      << Extensions(FALSE, << Wrapper(FALSE, << <<"1", "5", "0">> >>) >>) >>,
      << Extensions(TRUE, << Wrapper(TRUE, << <<"0">> >>) >>) >>,
      << Extensions(FALSE, << Wrapper(FALSE, << <<"a", "b">> >>) >>) >> }

\* The track points of the model: one child or attribute varied at a time
\* around BasePt, and one point carrying every child.
Points ==
    { [BasePt EXCEPT !.attrs = a] : a \in AttrChoices }
    \cup { [BasePt EXCEPT !.ele = e] : e \in EleChoices }
    \cup { [BasePt EXCEPT !.time = x] : x \in TimeChoices }
    \cup { [BasePt EXCEPT !.ext = x] : x \in ExtChoices }
    \cup { [OtherPt EXCEPT !.time = << <<"2", "0", "2", "4">> >>,
                           !.ext = << Extensions(FALSE,
                                        << Wrapper(FALSE, << <<"7", "2">> >>) >>) >>] }

\* Sequences over S of length at most n.
SeqsUpTo(S, n) == UNION { [1..k -> S] : k \in 0..n }

Seg(pts) == [trkpt |-> pts]
Trk(name, segs) == [name |-> name, trkseg |-> segs]
Metadata(name, desc, author) == [name |-> name, desc |-> desc, author |-> author]
Author(name) == [name |-> name]
Doc(root, attrs, metadata, trk) ==
    [root |-> root, attrs |-> attrs, metadata |-> metadata, trk |-> trk]

MetadataChoices ==
    { <<>>,
      << Metadata(<<>>, <<>>, <<>>) >>,
      << Metadata(<< <<"r", "u", "n">> >>, <<>>, <<>>) >>,
      << Metadata(<<>>, << <<"d">> >>, << Author(<<>>) >>) >>,
      << Metadata(<< <<"r", "u", "n">> >>, << <<>> >>, << Author(<< <<"j">> >>) >>) >> }

\* Segments used where the shape of the document varies.
SmallSegs == { Seg(<<>>), Seg(<<BasePt>>), Seg(<<OtherPt, BasePt>>) }
TrkChoices ==
    { <<>> }
    \cup { << Trk(n, <<>>) >> : n \in BOOLEAN }
    \cup { << Trk(FALSE, <<s>>) >> : s \in SmallSegs }
    \cup { << Trk(TRUE, <<s, Seg(<<OtherPt>>)>>) >> : s \in SmallSegs }
    \cup { << Trk(FALSE, <<s>>), Trk(FALSE, <<Seg(<<OtherPt>>)>>) >> : s \in SmallSegs }
    \cup { << Trk(FALSE, <<>>), Trk(FALSE, <<Seg(<<BasePt>>)>>) >> }

Roots == {"gpx", "kml"}

\* Documents whose shape varies, and documents whose first segment varies.
Docs ==
    { Doc(r, a, m, t) : r \in Roots, a \in BOOLEAN, m \in MetadataChoices,
                        t \in TrkChoices }
    \cup { Doc("gpx", TRUE, <<>>, << Trk(FALSE, <<Seg(pts)>>) >>) :
               pts \in SeqsUpTo(Points, MaxPts) }

\* What a file holds: text that is no well-formed XML, nothing at all, or a
\* well-formed document.
Files ==
    { [kind |-> "malformed"], [kind |-> "empty"] }
    \cup { [kind |-> "xml", doc |-> d] : d \in Docs }

\* ------------------------------------------------- the parser's result tree
\* What parseString hands to its callback (default options: every child in
\* an array under its tag name, attributes under "$", an element with
\* neither attributes nor children as its text, an element with nothing at
\* all as the empty string).
XText(s) == Str(s)
XTexts(l) == Arr([i \in 1..Len(l) |-> XText(l[i])])
\* An element given by its keys: the empty string when it has none.
XElem(f) == IF DOMAIN f = {} THEN Str(<<>>) ELSE Obj(f)

TPX == "gpxtpx:TrackPointExtension"
HR == "gpxtpx:hr"

XWrapper(w) ==
    XElem(Key(w.other, "gpxtpx:cad", XTexts(<< <<"9">> >>))
          @@ Key(w.hr # <<>>, HR, XTexts(w.hr)))
XExtensions(e) ==
    XElem(Key(e.other, "power", XTexts(<< <<"9">> >>))
          @@ Key(e.tpx # <<>>, TPX, Arr([i \in 1..Len(e.tpx) |-> XWrapper(e.tpx[i])])))
XPoint(p) ==
    XElem(Key(DOMAIN p.attrs # {}, "$",
              Obj([k \in DOMAIN p.attrs |-> Str(p.attrs[k])]))
          @@ Key(p.ele # <<>>, "ele", XTexts(p.ele))
          @@ Key(p.time # <<>>, "time", XTexts(p.time))
          @@ Key(p.ext # <<>>, "extensions",
                 Arr([i \in 1..Len(p.ext) |-> XExtensions(p.ext[i])])))
XSeg(s) ==
    XElem(Key(s.trkpt # <<>>, "trkpt",
              Arr([i \in 1..Len(s.trkpt) |-> XPoint(s.trkpt[i])])))
XTrk(t) ==
    XElem(Key(t.name, "name", XTexts(<< <<"t">> >>))
          @@ Key(t.trkseg # <<>>, "trkseg",
                 Arr([i \in 1..Len(t.trkseg) |-> XSeg(t.trkseg[i])])))
XAuthor(a) == XElem(Key(a.name # <<>>, "name", XTexts(a.name)))
XMetadata(m) ==
    XElem(Key(m.name # <<>>, "name", XTexts(m.name))
          @@ Key(m.desc # <<>>, "desc", XTexts(m.desc))
          @@ Key(m.author # <<>>, "author",
                 Arr([i \in 1..Len(m.author) |-> XAuthor(m.author[i])])))
XDoc(d) ==
    Obj(d.root :>
        XElem(Key(d.attrs, "$", Obj("version" :> Str(<<"1">>)))
              @@ Key(d.metadata # <<>>, "metadata",
                     Arr([i \in 1..Len(d.metadata) |-> XMetadata(d.metadata[i])]))
              @@ Key(d.trk # <<>>, "trk",
                     Arr([i \in 1..Len(d.trk) |-> XTrk(d.trk[i])]))))

\* The (err, result) pair of parseString's callback.
parseString(data) ==
    CASE "kind" \notin DOMAIN data -> [err |-> Err("TypeError"), result |-> Undef]
      [] data.kind = "malformed" -> [err |-> Err("SAXError"), result |-> Undef]
      [] data.kind = "empty" -> [err |-> Null, result |-> Null]
      [] OTHER -> [err |-> Null, result |-> XDoc(data.doc)]

\* ------------------------------------------------------------ projection
IsThrow(v) == v.t = "throw"

\* Faulty variant: a missing attribute is an error instead of a not-a-number.
CoordinateStrict(point, k) ==
    IF Get(Get(point, "$"), k).t \in {"undef", "throw"} THEN Throw
    ELSE parseFloat(Get(Get(point, "$"), k))

\* parseFloat(point.$.<k>): Throw when the point has no attribute map.
Coordinate(point, k) ==
    IF IsThrow(Get(Get(point, "$"), k)) THEN Throw
    ELSE parseFloat(Get(Get(point, "$"), k))

\* Faulty variant: the guard tests the child list only, not its first element.
ElevationListOnly(point) ==
    IF Truthy(Get(point, "ele"))
    THEN parseFloat(Idx0(Get(point, "ele"))) ELSE Null

\* if (point.ele && point.ele[0]) elevation = parseFloat(point.ele[0])
Elevation(point) ==
    IF Truthy(Get(point, "ele")) /\ Truthy(Idx0(Get(point, "ele")))
    THEN parseFloat(Idx0(Get(point, "ele"))) ELSE Null

\* if (point.time && point.time[0]) timestamp = new Date(..).toLocaleString()
Timestamp(point) ==
    IF Truthy(Get(point, "time")) /\ Truthy(Idx0(Get(point, "time")))
    THEN toLocaleString(Idx0(Get(point, "time"))) ELSE Null

\* v?.k and v?.[0]
GetOpt(v, k) == IF v.t \in {"undef", "null"} THEN Undef ELSE Get(v, k)
Idx0Opt(v) == IF v.t \in {"undef", "null"} THEN Undef ELSE Idx0(v)

\* Faulty variant: every step of the navigation is guarded (optional chaining).
HeartRateGuarded(point) ==
    LET hr == Idx0Opt(GetOpt(Idx0Opt(GetOpt(Idx0Opt(Get(point, "extensions")),
                                            TPX)), HR))
    IN  IF Truthy(hr) THEN parseInt(hr) ELSE Null

\* The heart rate of one point: only the outer existence check guards the
\* navigation extensions[0][TPX][0][HR][0].
HeartRate(point) ==
    LET extensions == Get(point, "extensions")
        hr == Idx0(Get(Idx0(Get(Idx0(extensions), TPX)), HR))
    IN  IF ~Truthy(extensions) THEN Null
        ELSE IF IsThrow(hr) THEN Throw
        ELSE IF Truthy(hr) THEN parseInt(hr)
        ELSE Null

\* The callback of trackPoints.map: the record of one point, or Throw.
ProjectPoint(point) ==
    IF IsThrow(Coordinate(point, "lat")) \/ IsThrow(Coordinate(point, "lon"))
    THEN Throw
    ELSE IF IsThrow(HeartRate(point)) THEN Throw
    ELSE [t |-> "rec",
          lat |-> Coordinate(point, "lat"),
          lon |-> Coordinate(point, "lon"),
          heartRate |-> HeartRate(point),
          timestamp |-> Timestamp(point),
          elevation |-> Elevation(point)]

\* Faulty variant: a point whose projection throws is left out and the rest kept.
RECURSIVE MapFromSkipping(_, _, _)
MapFromSkipping(a, i, datos) ==
    IF i > Len(a) THEN [threw |-> FALSE, datos |-> datos, calls |-> Len(a)]
    ELSE LET r == ProjectPoint(a[i])
         IN  MapFromSkipping(a, i + 1, IF IsThrow(r) THEN datos ELSE Append(datos, r))

\* trackPoints.map(...) from index i on, datos being the records so far:
\* the callback runs on each element in order and the first throw ends it.
RECURSIVE MapFrom(_, _, _)
MapFrom(a, i, datos) ==
    IF i > Len(a) THEN [threw |-> FALSE, datos |-> datos, calls |-> Len(a)]
    ELSE LET r == ProjectPoint(a[i])
         IN  IF IsThrow(r) THEN [threw |-> TRUE, datos |-> datos, calls |-> i]
             ELSE MapFrom(a, i + 1, Append(datos, r))

\* v[v.length - 1]
IdxLast(v) ==
    IF v.t \in {"undef", "null", "throw"} THEN Throw
    ELSE IF v.t = "arr" /\ Len(v.a) >= 1 THEN v.a[Len(v.a)]
    ELSE Undef

\* Faulty variant: the last segment of the last track instead of the first.
TrackPointsLast(result) ==
    Get(IdxLast(Get(IdxLast(Get(Get(result, "gpx"), "trk")), "trkseg")), "trkpt")

\* result.gpx.trk[0].trkseg[0].trkpt
TrackPoints(result) ==
    Get(Idx0(Get(Idx0(Get(Get(result, "gpx"), "trk")), "trkseg")), "trkpt")

\* The try block of getTrackPointsData.
ProjectTrack(result) ==
    LET trackPoints == TrackPoints(result)
    IN  IF trackPoints.t # "arr"
        THEN [threw |-> TRUE, datos |-> <<>>, calls |-> 0]
        ELSE MapFrom(trackPoints.a, 1, <<>>)

\* metadata.<k> ? metadata.<k>[0] : null
Field(metadata, k) ==
    IF Truthy(Get(metadata, k)) THEN Idx0(Get(metadata, k)) ELSE Null

\* Faulty variant: metadata[0] is read without testing that the node exists.
ProjectMetadataUnguarded(result) ==
    LET metadata == Idx0(Get(Get(result, "gpx"), "metadata"))
    IN  IF IsThrow(metadata) THEN Throw
        ELSE [t |-> "rec",
              name |-> Field(metadata, "name"),
              desc |-> Field(metadata, "desc"),
              author |-> Field(metadata, "author")]

\* Faulty variant: the first track is navigated before the metadata is read.
ProjectMetadataViaTrack(result) ==
    LET gpx == Get(result, "gpx")
        node == Get(gpx, "metadata")
        metadata == IF Truthy(node) THEN Idx0(node) ELSE Obj(NoKeys)
    IN  IF IsThrow(gpx) \/ IsThrow(node) \/ IsThrow(Get(Idx0(Get(gpx, "trk")), "name"))
        THEN Throw
        ELSE [t |-> "rec",
              name |-> Field(metadata, "name"),
              desc |-> Field(metadata, "desc"),
              author |-> Field(metadata, "author")]

\* The try block of GetMetadata: the resolved record, or Throw.
ProjectMetadata(result) ==
    LET gpx == Get(result, "gpx")
        node == Get(gpx, "metadata")
        metadata == IF Truthy(node) THEN Idx0(node) ELSE Obj(NoKeys)
    IN  IF IsThrow(gpx) \/ IsThrow(node) THEN Throw
        ELSE [t |-> "rec",
              name |-> Field(metadata, "name"),
              desc |-> Field(metadata, "desc"),
              author |-> Field(metadata, "author")]

\* ------------------------------------------------------------------ state
TP == "getTrackPointsData"
MD == "GetMetadata"
Fns == {TP, MD}

\* The paths a caller passes: one names the file, the other names nothing.
GoodPath == "track.gpx"
Paths == {GoodPath, "missing.gpx"}

VARIABLES
    file,         \* what the file at GoodPath holds
    pc,           \* per entry point: "idle", "readFile", "parseString", "done"
    path,         \* per entry point: the path argument of the call
    promise,      \* per entry point: the returned promise
    resolveCalls, \* per entry point: how often resolve was invoked
    rejectCalls,  \* per entry point: how often reject was invoked
    parserCalls,  \* per entry point: how often parseString was invoked
    projected     \* per entry point: how often its try block was entered
vars == <<file, pc, path, promise, resolveCalls, rejectCalls, parserCalls, projected>>

Pending == [state |-> "pending", value |-> Undef]

Init ==
    /\ file \in Files
    /\ pc = [c \in Fns |-> "idle"]
    /\ path = [c \in Fns |-> GoodPath]
    /\ promise = [c \in Fns |-> Pending]
    /\ resolveCalls = [c \in Fns |-> 0]
    /\ rejectCalls = [c \in Fns |-> 0]
    /\ parserCalls = [c \in Fns |-> 0]
    /\ projected = [c \in Fns |-> 0]

\* A promise settles on the first call of resolve or reject and ignores
\* every later one.
Settle(c, state, value) ==
    promise' = [promise EXCEPT ![c] =
                   IF @.state = "pending"
                   THEN [state |-> state, value |-> value] ELSE @]
resolve(c, value) ==
    /\ Settle(c, "fulfilled", value)
    /\ resolveCalls' = [resolveCalls EXCEPT ![c] = @ + 1]
    /\ UNCHANGED rejectCalls
reject(c, error) ==
    /\ Settle(c, "rejected", error)
    /\ rejectCalls' = [rejectCalls EXCEPT ![c] = @ + 1]
    /\ UNCHANGED resolveCalls

\* fs.readFile(path, "utf8", cb): the (err, data) pair of its callback.
readFile(p) ==
    IF p = GoodPath THEN [err |-> Null, data |-> file]
    ELSE [err |-> Err("ENOENT"), data |-> Undef]

\* The body of the promise executor: the file read is issued.
Call(c, p) ==
    /\ pc[c] = "idle"
    /\ pc' = [pc EXCEPT ![c] = "readFile"]
    /\ path' = [path EXCEPT ![c] = p]
    /\ UNCHANGED <<file, promise, resolveCalls, rejectCalls, parserCalls, projected>>

\* Faulty variant: the read error is rejected without returning, so the parser is
\* invoked all the same.
ReadFileCallbackNoReturn(c) ==
    /\ pc[c] = "readFile"
    /\ IF Truthy(readFile(path[c]).err)
       THEN reject(c, readFile(path[c]).err)
       ELSE UNCHANGED <<promise, resolveCalls, rejectCalls>>
    /\ parserCalls' = [parserCalls EXCEPT ![c] = @ + 1]
    /\ pc' = [pc EXCEPT ![c] = "parseString"]
    /\ UNCHANGED <<file, path, projected>>

\* The callback of fs.readFile, up to the call of parser.parseString.
ReadFileCallback(c) ==
    /\ pc[c] = "readFile"
    /\ IF Truthy(readFile(path[c]).err)
       THEN /\ reject(c, readFile(path[c]).err)
            /\ pc' = [pc EXCEPT ![c] = "done"]
            /\ UNCHANGED parserCalls
       ELSE /\ parserCalls' = [parserCalls EXCEPT ![c] = @ + 1]
            /\ pc' = [pc EXCEPT ![c] = "parseString"]
            /\ UNCHANGED <<promise, resolveCalls, rejectCalls>>
    /\ UNCHANGED <<file, path, projected>>

\* Faulty variant: the parse error is rejected without returning, so the try block
\* runs on the missing result and rejects a second time.
TrackPointsCallbackNoReturn(err, result) ==
    IF Truthy(err)
    THEN /\ Settle(TP, "rejected", err)
         /\ rejectCalls' = [rejectCalls EXCEPT ![TP] = @ + 2]
         /\ projected' = [projected EXCEPT ![TP] = @ + 1]
         /\ UNCHANGED resolveCalls
    ELSE /\ projected' = [projected EXCEPT ![TP] = @ + 1]
         /\ IF ProjectTrack(result).threw
            THEN reject(TP, Err("TypeError"))
            ELSE resolve(TP, Arr(ProjectTrack(result).datos))

\* The callback of parser.parseString in getTrackPointsData.
TrackPointsCallback(err, result) ==
    IF Truthy(err)
    THEN /\ reject(TP, err)
         /\ UNCHANGED projected
    ELSE /\ projected' = [projected EXCEPT ![TP] = @ + 1]
         /\ IF ProjectTrack(result).threw
            THEN reject(TP, Err("TypeError"))
            ELSE resolve(TP, Arr(ProjectTrack(result).datos))

\* The callback of parser.parseString in GetMetadata.
MetadataCallback(err, result) ==
    IF Truthy(err)
    THEN /\ reject(MD, err)
         /\ UNCHANGED projected
    ELSE /\ projected' = [projected EXCEPT ![MD] = @ + 1]
         /\ IF IsThrow(ProjectMetadata(result))
            THEN reject(MD, Err("TypeError"))
            ELSE resolve(MD, ProjectMetadata(result))

getTrackPointsData(p) == Call(TP, p)
getTrackPointsData_readFile == ReadFileCallback(TP)
getTrackPointsData_parseString ==
    /\ pc[TP] = "parseString"
    /\ \E r \in {parseString(readFile(path[TP]).data)} :
           TrackPointsCallback(r.err, r.result)
    /\ pc' = [pc EXCEPT ![TP] = "done"]
    /\ UNCHANGED <<file, path, parserCalls>>

GetMetadata(p) == Call(MD, p)
GetMetadata_readFile == ReadFileCallback(MD)
GetMetadata_parseString ==
    /\ pc[MD] = "parseString"
    /\ \E r \in {parseString(readFile(path[MD]).data)} :
           MetadataCallback(r.err, r.result)
    /\ pc' = [pc EXCEPT ![MD] = "done"]
    /\ UNCHANGED <<file, path, parserCalls>>

Next ==
    \/ \E p \in Paths : getTrackPointsData(p)
    \/ getTrackPointsData_readFile
    \/ getTrackPointsData_parseString
    \/ \E p \in Paths : GetMetadata(p)
    \/ GetMetadata_readFile
    \/ GetMetadata_parseString

Spec == Init /\ [][Next]_vars

\* The call c leaves the position `from`: the callback it waits for there
\* is delivered.
Delivered(c, from) ==
    /\ pc[c] = from
    /\ \E to \in {"parseString", "done"} : pc' = [pc EXCEPT ![c] = to]

\* The loader and the parser each deliver their callback: a call does not
\* wait for ever in "readFile" or in "parseString".
FairSpec ==
    /\ Spec
    /\ \A c \in Fns : /\ WF_pc(Delivered(c, "readFile"))
                      /\ WF_pc(Delivered(c, "parseString"))

\* ======================================================= checked properties
\* Facts about the document in the file, stated on the XML itself.
ReadOk(c) == path[c] = GoodPath
Done(c) == pc[c] = "done"
IsXml == file.kind = "xml"
Fulfilled(c) == promise[c].state = "fulfilled"
Rejected(c) == promise[c].state = "rejected"
Settled(c) == promise[c].state # "pending"
RejectedWith(e) == [state |-> "rejected", value |-> Err(e)]

\* The document has a first track with a first segment.
HasFirstSeg ==
    /\ IsXml
    /\ file.doc.root = "gpx"
    /\ file.doc.trk # <<>>
    /\ file.doc.trk[1].trkseg # <<>>
FirstSeg == file.doc.trk[1].trkseg[1].trkpt
HasAttrs(p) == DOMAIN p.attrs # {}
\* No extensions child, or extensions > TrackPointExtension > hr all there.
ExtWellNested(p) ==
    p.ext = <<>> \/ (p.ext[1].tpx # <<>> /\ p.ext[1].tpx[1].hr # <<>>)
HrText(p) == p.ext[1].tpx[1].hr[1]
Projectable(p) == HasAttrs(p) /\ ExtWellNested(p)
\* The records a fulfilled getTrackPointsData promise carries.
Records == promise[TP].value.a
\* The call has resolved with one record per point of the first segment.
ResolvedAligned ==
    /\ Done(TP) /\ ReadOk(TP) /\ HasFirstSeg
    /\ Fulfilled(TP)
    /\ promise[TP].value.t = "arr"
    /\ Len(Records) = Len(FirstSeg)

\* C1: when the first segment of the first track holds N >= 1 projectable
\* points, the call resolves with exactly N records, the i-th built from the
\* i-th trkpt of that segment; later segments and tracks add nothing.
C1_FirstSegmentInOrder ==
    ( /\ Done(TP) /\ ReadOk(TP) /\ HasFirstSeg
      /\ Len(FirstSeg) >= 1
      /\ \A i \in 1..Len(FirstSeg) : Projectable(FirstSeg[i]) )
    => /\ ResolvedAligned
       /\ \A i \in 1..Len(FirstSeg) : Records[i] = ProjectPoint(XPoint(FirstSeg[i]))

C1_Witness ==
    /\ ResolvedAligned
    /\ Len(FirstSeg) = 2
    /\ FirstSeg[1] # FirstSeg[2]
    /\ Records[1] # Records[2]
    /\ Len(file.doc.trk[1].trkseg) = 2

\* C2 as stated: every document that is read and parsed and has no metadata
\* block makes GetMetadata resolve with name, desc and author all null.
AllAbsent == [t |-> "rec", name |-> Null, desc |-> Null, author |-> Null]
C2_Original ==
    ( /\ Done(MD) /\ ReadOk(MD)
      /\ (file.kind = "empty" \/ (IsXml /\ file.doc.metadata = <<>>)) )
    => promise[MD] = [state |-> "fulfilled", value |-> AllAbsent]

\* C2 amended: a parsed document whose root element is gpx and that has no
\* metadata block makes GetMetadata resolve with name, desc and author all
\* null.
C2_NoMetadataUnderGpx ==
    ( /\ Done(MD) /\ ReadOk(MD) /\ IsXml
      /\ file.doc.root = "gpx"
      /\ file.doc.metadata = <<>> )
    => promise[MD] = [state |-> "fulfilled", value |-> AllAbsent]

C2_Witness ==
    /\ Done(MD) /\ ReadOk(MD) /\ IsXml
    /\ file.doc.root = "gpx" /\ file.doc.metadata = <<>>
    /\ ~file.doc.attrs /\ file.doc.trk = <<>>
    /\ Fulfilled(MD) /\ promise[MD].value = AllAbsent

\* What GetMetadata settles with on a parse result.
MetadataOutcome(result) ==
    IF IsThrow(ProjectMetadata(result)) THEN RejectedWith("TypeError")
    ELSE [state |-> "fulfilled", value |-> ProjectMetadata(result)]

\* C3: on a parsed document without trk element getTrackPointsData rejects
\* and never resolves, and what GetMetadata settles with is what it would
\* settle with for any other track structure in the same document.
C3_MetadataIgnoresTracks ==
    /\ ( /\ Done(TP) /\ ReadOk(TP)
         /\ (file.kind = "empty" \/ (IsXml /\ file.doc.trk = <<>>)) )
       => (promise[TP] = RejectedWith("TypeError") /\ resolveCalls[TP] = 0)
    /\ (Done(MD) /\ ReadOk(MD) /\ IsXml)
       => \A t \in TrkChoices :
              promise[MD] = MetadataOutcome(XDoc([file.doc EXCEPT !.trk = t]))

C3_Witness ==
    /\ Done(TP) /\ ReadOk(TP) /\ Done(MD) /\ ReadOk(MD)
    /\ IsXml /\ file.doc.root = "gpx" /\ file.doc.trk = <<>>
    /\ file.doc.metadata # <<>>
    /\ Rejected(TP) /\ Fulfilled(MD)
    /\ promise[MD].value.name # Null

\* C4: a failed read rejects with the loader's error and the parser is never
\* invoked; a failed parse rejects with the parser's error and no projection
\* runs.
C4_FirstFailingStage ==
    \A c \in Fns :
        /\ ~ReadOk(c) =>
               /\ parserCalls[c] = 0 /\ projected[c] = 0
               /\ Done(c) => promise[c] = RejectedWith("ENOENT")
        /\ (ReadOk(c) /\ file.kind = "malformed") =>
               /\ projected[c] = 0
               /\ Done(c) => (promise[c] = RejectedWith("SAXError")
                              /\ parserCalls[c] = 1)

C4_Witness ==
    /\ Done(TP) /\ ~ReadOk(TP) /\ Rejected(TP)
    /\ Done(MD) /\ ReadOk(MD) /\ file.kind = "malformed" /\ Rejected(MD)

\* C5: getTrackPointsData resolves only with one record per trkpt of the
\* first segment, and when the projection of any point of that segment
\* throws it rejects and delivers no record.
C5_AllOrNothing ==
    (Done(TP) /\ ReadOk(TP)) =>
        /\ Fulfilled(TP) => ResolvedAligned
        /\ (HasFirstSeg /\ \E i \in 1..Len(FirstSeg) : ~Projectable(FirstSeg[i]))
           => (promise[TP] = RejectedWith("TypeError") /\ resolveCalls[TP] = 0)

C5_Witness ==
    /\ Done(TP) /\ ReadOk(TP) /\ HasFirstSeg
    /\ Len(FirstSeg) = 2
    /\ Projectable(FirstSeg[1]) /\ ~Projectable(FirstSeg[2])
    /\ Rejected(TP)

\* C6 as stated: a first segment with zero track points makes
\* getTrackPointsData resolve with the empty sequence.
C6_Original ==
    (Done(TP) /\ ReadOk(TP) /\ HasFirstSeg /\ FirstSeg = <<>>)
    => promise[TP] = [state |-> "fulfilled", value |-> Arr(<<>>)]

\* C7: a point without extensions child gets heartRate null and causes no
\* failure; an extensions child without the wrapper, or a wrapper without
\* hr, makes the whole call reject; a nested hr value gives its integer
\* parse.
C7_HeartRate ==
    (Done(TP) /\ ReadOk(TP) /\ HasFirstSeg /\ FirstSeg # <<>>) =>
        /\ (\E i \in 1..Len(FirstSeg) : ~ExtWellNested(FirstSeg[i]))
           => promise[TP] = RejectedWith("TypeError")
        /\ (\A i \in 1..Len(FirstSeg) : HasAttrs(FirstSeg[i]) /\ FirstSeg[i].ext = <<>>)
           => Fulfilled(TP)
        /\ Fulfilled(TP) =>
               /\ ResolvedAligned
               /\ \A i \in 1..Len(FirstSeg) :
                      /\ FirstSeg[i].ext = <<>> => Records[i].heartRate = Null
                      /\ (FirstSeg[i].ext # <<>> /\ HrText(FirstSeg[i]) # <<>>)
                         => Records[i].heartRate = ParseIntText(HrText(FirstSeg[i]))

C7_Witness ==
    /\ ResolvedAligned
    /\ \E i, j \in 1..Len(FirstSeg) :
           /\ FirstSeg[i].ext = <<>>
           /\ Records[i].heartRate = Null
           /\ FirstSeg[j].ext # <<>>
           /\ HrText(FirstSeg[j]) = <<"1", "5", "0">>
           /\ Records[j].heartRate = Num(150 * Pow10(FracDigits))

\* The text does not start (after white space and a sign) with a number.
NonNumeric(s) ==
    LET w == LeadingWs(s)
        k == IF w < Len(s) /\ s[w + 1] \in {"-", "+"} THEN w + 1 ELSE w
    IN  \/ k >= Len(s)
        \/ /\ s[k + 1] \notin Digit
           /\ ~(s[k + 1] = "." /\ k + 2 <= Len(s) /\ s[k + 2] \in Digit)
\* The attribute k of point p is missing or non-numeric.
BadCoordinate(p, k) == k \notin DOMAIN p.attrs \/ NonNumeric(p.attrs[k])
NaNForBadCoordinates ==
    /\ ResolvedAligned
    /\ \A i \in 1..Len(FirstSeg) :
           /\ BadCoordinate(FirstSeg[i], "lat") => Records[i].lat = NaN
           /\ BadCoordinate(FirstSeg[i], "lon") => Records[i].lon = NaN

\* C8 as stated: a missing or non-numeric lat or lon, the point carrying
\* neither attribute included, never makes the call reject; the call
\* resolves and the field holds not-a-number.
C8_Original ==
    ( /\ Done(TP) /\ ReadOk(TP) /\ HasFirstSeg /\ FirstSeg # <<>>
      /\ \A i \in 1..Len(FirstSeg) : ExtWellNested(FirstSeg[i]) )
    => NaNForBadCoordinates

\* C8 amended: when every point of the first segment carries at least one
\* attribute, a missing or non-numeric lat or lon never makes the call
\* reject; the call resolves and the field holds not-a-number.
C8_NaNWhenSomeAttribute ==
    ( /\ Done(TP) /\ ReadOk(TP) /\ HasFirstSeg /\ FirstSeg # <<>>
      /\ \A i \in 1..Len(FirstSeg) : ExtWellNested(FirstSeg[i])
      /\ \A i \in 1..Len(FirstSeg) : HasAttrs(FirstSeg[i]) )
    => NaNForBadCoordinates

C8_Witness ==
    /\ ResolvedAligned
    /\ \E i, j \in 1..Len(FirstSeg) :
           /\ "lat" \notin DOMAIN FirstSeg[i].attrs
           /\ Records[i].lat = NaN /\ Records[i].lon # NaN
           /\ "lat" \in DOMAIN FirstSeg[j].attrs
           /\ NonNumeric(FirstSeg[j].attrs["lat"])
           /\ Records[j].lat = NaN

\* C9 as stated: a record's elevation is null exactly when its point has no
\* ele child, and is the decimal parse of the child's text whenever the
\* child exists, empty text included.
C9_Original ==
    ResolvedAligned =>
        \A i \in 1..Len(FirstSeg) :
            /\ Records[i].elevation = Null <=> FirstSeg[i].ele = <<>>
            /\ FirstSeg[i].ele # <<>>
               => Records[i].elevation = ParseFloatText(FirstSeg[i].ele[1])

\* C9 amended: a record's elevation is null exactly when its point has no
\* ele child or its first ele child is empty; otherwise it is the decimal
\* parse of that child's text.
C9_ElevationAbsentOrParsed ==
    ResolvedAligned =>
        \A i \in 1..Len(FirstSeg) :
            LET none == FirstSeg[i].ele = <<>> \/ FirstSeg[i].ele[1] = <<>>
            IN  /\ Records[i].elevation = Null <=> none
                /\ ~none => Records[i].elevation = ParseFloatText(FirstSeg[i].ele[1])

C9_Witness ==
    /\ ResolvedAligned
    /\ \E i, j \in 1..Len(FirstSeg) :
           /\ FirstSeg[i].ele = << <<>> >>
           /\ Records[i].elevation = Null
           /\ FirstSeg[j].ele = << <<"a", "b">> >>
           /\ Records[j].elevation = NaN

\* C10: every call settles exactly once: resolve and reject are invoked at
\* most once between them, a rejected call never resolved and ran its
\* projection at most as the step that rejected, a settled promise never
\* changes, and every call that was made eventually settles.
SettleCalls(c) == resolveCalls[c] + rejectCalls[c]
SettledOnce ==
    \A c \in Fns :
        /\ SettleCalls(c) <= 1
        /\ projected[c] <= 1
        /\ Settled(c) <=> SettleCalls(c) = 1
        /\ Fulfilled(c) <=> resolveCalls[c] = 1
        /\ Done(c) <=> Settled(c)
        /\ (Rejected(c) /\ projected[c] = 1) => promise[c] = RejectedWith("TypeError")
C10_SettlesExactlyOnce ==
    /\ []SettledOnce
    /\ [][\A c \in Fns : Settled(c) => promise'[c] = promise[c]]_vars
    /\ \A c \in Fns : (pc[c] # "idle") ~> Settled(c)

C10_Witness ==
    /\ Done(TP) /\ Done(MD)
    /\ Rejected(TP) /\ projected[TP] = 1
    /\ Fulfilled(MD) /\ projected[MD] = 1
    /\ SettleCalls(TP) = 1 /\ SettleCalls(MD) = 1

====
